---------------------------- MODULE Spec2Model ----------------------------
(***************************************************************************)
(* Model of uploads/trader.py: the Rainforest Resin market-making Trader   *)
(* (values_extract, compute_orders_resin, run) and the budgeted Logger     *)
(* (print, flush, truncate, the compress_* helpers and to_json).           *)
(*                                                                         *)
(* Python values are represented as follows.                               *)
(*   str    a TLA+ string; Len, \o and SubSeq act on its characters        *)
(*   dict   a sequence of <<key, value>> pairs with distinct keys, in      *)
(*          insertion order (the order dict.items() and json.dumps use)    *)
(*   list   a sequence                                                     *)
(*   Order, Trade, OrderDepth, TradingState, ...   records                 *)
(***************************************************************************)
EXTENDS Integers, Sequences, FiniteSets, TLC

VARIABLES
    position,   \* Trader.position["RAINFOREST_RESIN"]
    logs,       \* Logger.logs
    state,      \* the TradingState handed to Trader.run / Logger.flush
    args,       \* the other arguments of the call being made
    ret,        \* what the last call returned
    stdout,     \* the line Logger.flush printed last
    pc          \* "ready": a call is prepared; "done": it has returned

vars == <<position, logs, state, args, ret, stdout, pc>>

-----------------------------------------------------------------------------
(* Program constants *)

max_log_length == 3750

resin_fair_price == 10000

position_limit == 50

RESIN == "RAINFOREST_RESIN"

None == "None"

-----------------------------------------------------------------------------
(* Python built-ins used by the code *)

Min(a, b) == IF a < b THEN a ELSE b

Max(a, b) == IF a > b THEN a ELSE b

\* key in d
Has(d, k) == \E i \in DOMAIN d : d[i][1] = k

\* d.get(k, default)
Get(d, k, default) ==
    IF Has(d, k) THEN d[CHOOSE i \in DOMAIN d : d[i][1] = k][2] ELSE default

\* the sequence s without its i-th element
Without(s, i) == SubSeq(s, 1, i - 1) \o SubSeq(s, i + 1, Len(s))

\* sorted(d.items(), reverse=reverse): the items ordered by key
RECURSIVE Sorted(_, _)
Sorted(d, reverse) ==
    IF d = <<>> THEN <<>>
    ELSE LET i == CHOOSE i \in DOMAIN d : \A j \in DOMAIN d :
                      IF reverse THEN d[j][1] <= d[i][1] ELSE d[i][1] <= d[j][1]
         IN  <<d[i]>> \o Sorted(Without(d, i), reverse)

Order(symbol, price, quantity) ==
    [symbol |-> symbol, price |-> price, quantity |-> quantity]

-----------------------------------------------------------------------------
(* Trader.values_extract *)

\* values_extract with ">=" for ">": a tie moves the best price on
RECURSIVE values_extract_loop_ties(_, _, _, _, _)
values_extract_loop_ties(items, buy, tot_vol, best_val, mxvol) ==
    IF items = <<>> THEN <<tot_vol, best_val>>
    ELSE LET price == Head(items)[1]
             vol   == IF buy = 0 THEN Head(items)[2] * (-1) ELSE Head(items)[2]
             tot   == tot_vol + vol
         IN  IF tot >= mxvol
             THEN values_extract_loop_ties(Tail(items), buy, tot, price, tot)
             ELSE values_extract_loop_ties(Tail(items), buy, tot, best_val, mxvol)

values_extract_ties(order_dict, buy) ==
    values_extract_loop_ties(order_dict, buy, 0, -1, -1)

RECURSIVE values_extract_loop(_, _, _, _, _)
values_extract_loop(items, buy, tot_vol, best_val, mxvol) ==
    IF items = <<>> THEN <<tot_vol, best_val>>
    ELSE LET price == Head(items)[1]
             vol   == IF buy = 0 THEN Head(items)[2] * (-1) ELSE Head(items)[2]
             tot   == tot_vol + vol
         IN  IF tot > mxvol
             THEN values_extract_loop(Tail(items), buy, tot, price, tot)
             ELSE values_extract_loop(Tail(items), buy, tot, best_val, mxvol)

values_extract(order_dict, buy) == values_extract_loop(order_dict, buy, 0, -1, -1)

-----------------------------------------------------------------------------
(* Trader.compute_orders_resin.  pos is self.position.get(product, 0), which  *)
(* nothing in the method assigns; st is the pair of locals (cpos, orders)     *)
(* and ok records that no assert has failed.                                  *)

\* the loop over osell taking at the fair price whatever the inventory
RECURSIVE take_asks_at_fair(_, _, _, _)
take_asks_at_fair(items, pos, acc_bid, st) ==
    IF items = <<>> \/ ~st.ok THEN st
    ELSE LET ask == Head(items)[1]
             vol == Head(items)[2]
         IN  IF (ask <= acc_bid) /\ st.cpos < 50
             THEN LET order_for == Min(-vol, 50 - st.cpos)
                  IN  take_asks_at_fair(Tail(items), pos, acc_bid,
                                [cpos   |-> st.cpos + order_for,
                                 ok     |-> order_for >= 0,
                                 orders |-> IF order_for >= 0
                                            THEN Append(st.orders,
                                                        Order("RAINFOREST_RESIN", ask, order_for))
                                            ELSE st.orders])
             ELSE take_asks_at_fair(Tail(items), pos, acc_bid, st)

\* the loop over osell
RECURSIVE take_asks(_, _, _, _)
take_asks(items, pos, acc_bid, st) ==
    IF items = <<>> \/ ~st.ok THEN st
    ELSE LET ask == Head(items)[1]
             vol == Head(items)[2]
         IN  IF ((ask < acc_bid) \/ ((pos < 0) /\ (ask = acc_bid)))
                /\ st.cpos < position_limit
             THEN LET order_for == Min(-vol, position_limit - st.cpos)
                  IN  take_asks(Tail(items), pos, acc_bid,
                                [cpos   |-> st.cpos + order_for,
                                 ok     |-> order_for >= 0,
                                 orders |-> IF order_for >= 0
                                            THEN Append(st.orders, Order(RESIN, ask, order_for))
                                            ELSE st.orders])
             ELSE take_asks(Tail(items), pos, acc_bid, st)

\* a passive buy of 40 whatever capacity is left
post_buy_uncapped(cond, price, st) ==
    IF (st.cpos < 50) /\ cond
    THEN [st EXCEPT !.orders = Append(@, Order("RAINFOREST_RESIN", price, 40)),
                    !.cpos = @ + 40]
    ELSE st

\* one of the three passive buys: posted when its condition holds
post_buy(cond, price, st) ==
    IF (st.cpos < position_limit) /\ cond
    THEN LET num == Min(40, position_limit - st.cpos)
         IN  [st EXCEPT !.orders = Append(@, Order(RESIN, price, num)),
                        !.cpos = @ + num]
    ELSE st

\* the three passive buys with the bid price taken with max for min
passive_buys_above(pos, best_buy_pr, acc_bid, st) ==
    LET undercut_buy == best_buy_pr + 1
        bid_pr == Max(undercut_buy, acc_bid - 1)
        s1 == post_buy(pos < 0, Min(undercut_buy + 1, acc_bid - 1), st)
        s2 == post_buy(pos > 15, Min(undercut_buy - 1, acc_bid - 1), s1)
    IN  post_buy(TRUE, bid_pr, s2)

\* the three passive buys after the loop over osell
passive_buys(pos, best_buy_pr, acc_bid, st) ==
    LET undercut_buy == best_buy_pr + 1
        bid_pr == Min(undercut_buy, acc_bid - 1)
        s1 == post_buy(pos < 0, Min(undercut_buy + 1, acc_bid - 1), st)
        s2 == post_buy(pos > 15, Min(undercut_buy - 1, acc_bid - 1), s1)
    IN  post_buy(TRUE, bid_pr, s2)

\* the loop over obuy
RECURSIVE take_bids(_, _, _, _)
take_bids(items, pos, acc_ask, st) ==
    IF items = <<>> \/ ~st.ok THEN st
    ELSE LET bid == Head(items)[1]
             vol == Head(items)[2]
         IN  IF ((bid > acc_ask) \/ ((pos > 0) /\ (bid = acc_ask)))
                /\ st.cpos > -position_limit
             THEN LET order_for == Max(-vol, -position_limit - st.cpos)
                  IN  take_bids(Tail(items), pos, acc_ask,
                                [cpos   |-> st.cpos + order_for,
                                 ok     |-> order_for <= 0,
                                 orders |-> IF order_for <= 0
                                            THEN Append(st.orders, Order(RESIN, bid, order_for))
                                            ELSE st.orders])
             ELSE take_bids(Tail(items), pos, acc_ask, st)

\* one of the three passive sells: posted when its condition holds
post_sell(cond, price, st) ==
    IF (st.cpos > -position_limit) /\ cond
    THEN LET num == Max(-40, -position_limit - st.cpos)
         IN  [st EXCEPT !.orders = Append(@, Order(RESIN, price, num)),
                        !.cpos = @ + num]
    ELSE st

\* the three passive sells with the soft threshold met at -15 already
passive_sells_soft(pos, best_sell_pr, acc_ask, st) ==
    LET undercut_sell == best_sell_pr - 1
        sell_pr == Max(undercut_sell, acc_ask + 1)
        s1 == post_sell(pos > 0, Max(undercut_sell - 1, acc_ask + 1), st)
        s2 == post_sell(pos <= -15, Max(undercut_sell + 1, acc_ask + 1), s1)
    IN  post_sell(TRUE, sell_pr, s2)

\* the three passive sells after the loop over obuy
passive_sells(pos, best_sell_pr, acc_ask, st) ==
    LET undercut_sell == best_sell_pr - 1
        sell_pr == Max(undercut_sell, acc_ask + 1)
        s1 == post_sell(pos > 0, Max(undercut_sell - 1, acc_ask + 1), st)
        s2 == post_sell(pos < -15, Max(undercut_sell + 1, acc_ask + 1), s1)
    IN  post_sell(TRUE, sell_pr, s2)

\* the locals of compute_orders_resin where it ends
compute_orders_resin_locals(pos, order_depth, acc_bid, acc_ask) ==
    LET osell == Sorted(order_depth.sell_orders, FALSE)
        obuy  == Sorted(order_depth.buy_orders, TRUE)
        best_sell_pr == values_extract(osell, 0)[2]
        best_buy_pr  == values_extract(obuy, 1)[2]
        b0 == take_asks(osell, pos, acc_bid, [cpos |-> pos, ok |-> TRUE, orders |-> <<>>])
        b1 == IF b0.ok THEN passive_buys(pos, best_buy_pr, acc_bid, b0) ELSE b0
        s0 == IF b1.ok THEN take_bids(obuy, pos, acc_ask, [b1 EXCEPT !.cpos = pos]) ELSE b1
    IN  IF s0.ok THEN passive_sells(pos, best_sell_pr, acc_ask, s0) ELSE s0

\* what compute_orders_resin returns (.orders), unless an assert fails and
\* it raises AssertionError (.raised)
compute_orders_resin(pos, order_depth, acc_bid, acc_ask) ==
    LET l == compute_orders_resin_locals(pos, order_depth, acc_bid, acc_ask)
    IN  [raised |-> ~l.ok, orders |-> l.orders]

-----------------------------------------------------------------------------
(* json.dumps(value, cls=ProsperityEncoder, separators=(",", ":")) on the     *)
(* values the Logger builds.  A value to serialize is tagged with its Python  *)
(* type: JInt(n), JStr(s), JList(<<v1, ...>>), JDict(<< <<k1, v1>>, ... >>).  *)

JInt(n) == [t |-> "int", v |-> n]

JStr(s) == [t |-> "str", v |-> s]

JList(l) == [t |-> "list", v |-> l]

JDict(d) == [t |-> "dict", v |-> d]

Digit == <<"0", "1", "2", "3", "4", "5", "6", "7", "8", "9">>

\* str(n) for n >= 0
RECURSIVE NatStr(_)
NatStr(n) == IF n < 10 THEN Digit[n + 1] ELSE NatStr(n \div 10) \o Digit[(n % 10) + 1]

\* str(n)
IntStr(n) == IF n < 0 THEN "-" \o NatStr(-n) ELSE NatStr(n)

\* json's escape of one character (ESCAPE_DCT of json.encoder); the model's
\* texts hold no other control character and no non-ASCII character
EscapeChar(c) ==
    CASE c = "\"" -> "\\\""
      [] c = "\\" -> "\\\\"
      [] c = "\n" -> "\\n"
      [] c = "\r" -> "\\r"
      [] c = "\t" -> "\\t"
      [] OTHER    -> c

\* the escapes of the characters of s, concatenated
RECURSIVE Escape(_)
Escape(s) ==
    IF Len(s) = 0 THEN ""
    ELSE IF Len(s) = 1 THEN EscapeChar(s)
    ELSE LET m == Len(s) \div 2
         IN  Escape(SubSeq(s, 1, m)) \o Escape(SubSeq(s, m + 1, Len(s)))

\* json's encoding of a str
EncodeStr(s) == "\"" \o Escape(s) \o "\""

\* sep.join(parts)
RECURSIVE Join(_, _)
Join(parts, sep) ==
    IF Len(parts) = 0 THEN ""
    ELSE IF Len(parts) = 1 THEN parts[1]
    ELSE LET m == Len(parts) \div 2
         IN  Join(SubSeq(parts, 1, m), sep) \o sep
                 \o Join(SubSeq(parts, m + 1, Len(parts)), sep)

\* a dict key as json writes it: a str as it is, an int as str(int)
EncodeKey(k) == IF k.t = "int" THEN EncodeStr(IntStr(k.v)) ELSE EncodeStr(k.v)

RECURSIVE to_json(_)
to_json(value) ==
    CASE value.t = "int"  -> IntStr(value.v)
      [] value.t = "str"  -> EncodeStr(value.v)
      [] value.t = "list" ->
            "[" \o Join([i \in DOMAIN value.v |-> to_json(value.v[i])], ",") \o "]"
      [] value.t = "dict" ->
            "{" \o Join([i \in DOMAIN value.v |->
                            EncodeKey(value.v[i][1]) \o ":" \o to_json(value.v[i][2])], ",")
                \o "}"

-----------------------------------------------------------------------------
(* Logger *)

\* a dict of str -> int, tagged
StrIntDict(d) == JDict([i \in DOMAIN d |-> <<JStr(d[i][1]), JInt(d[i][2])>>])

\* a dict of int -> int, tagged
IntIntDict(d) == JDict([i \in DOMAIN d |-> <<JInt(d[i][1]), JInt(d[i][2])>>])

\* the lists of a dict of lists, one after the other (for arr in d.values(): for x in arr)
RECURSIVE Flatten(_)
Flatten(d) == IF d = <<>> THEN <<>> ELSE Head(d)[2] \o Flatten(Tail(d))

compress_listings(listings) ==
    JList([i \in DOMAIN listings |->
             JList(<<JStr(listings[i][2].symbol), JStr(listings[i][2].product),
                     JStr(listings[i][2].denomination)>>)])

compress_order_depths(order_depths) ==
    JDict([i \in DOMAIN order_depths |->
             <<JStr(order_depths[i][1]),
               JList(<<IntIntDict(order_depths[i][2].buy_orders),
                       IntIntDict(order_depths[i][2].sell_orders)>>)>>])

compress_trades(trades) ==
    LET all == Flatten(trades)
    IN  JList([i \in DOMAIN all |->
                 JList(<<JStr(all[i].symbol), JInt(all[i].price), JInt(all[i].quantity),
                         JStr(all[i].buyer), JStr(all[i].seller), JInt(all[i].timestamp)>>)])

compress_observations(observations) ==
    JList(<<StrIntDict(observations.plainValueObservations),
            JDict([i \in DOMAIN observations.conversionObservations |->
                     LET product == observations.conversionObservations[i][1]
                         observation == observations.conversionObservations[i][2]
                     IN  <<JStr(product),
                           JList(<<JInt(observation.bidPrice), JInt(observation.askPrice),
                                   JInt(observation.transportFees), JInt(observation.exportTariff),
                                   JInt(observation.importTariff), JInt(observation.sugarPrice),
                                   JInt(observation.sunlightIndex)>>)>>])>>)

compress_state(st, trader_data) ==
    JList(<<JInt(st.timestamp),
            JStr(trader_data),
            compress_listings(st.listings),
            compress_order_depths(st.order_depths),
            compress_trades(st.own_trades),
            compress_trades(st.market_trades),
            StrIntDict(st.position),
            compress_observations(st.observations)>>)

compress_orders(orders) ==
    LET all == Flatten(orders)
    IN  JList([i \in DOMAIN all |->
                 JList(<<JStr(all[i].symbol), JInt(all[i].price), JInt(all[i].quantity)>>)])

\* value[:stop]
SliceTo(value, stop) ==
    IF stop >= 0 THEN SubSeq(value, 1, Min(stop, Len(value)))
    ELSE SubSeq(value, 1, Max(0, Len(value) + stop))

truncate(value, max_length) ==
    IF Len(value) <= max_length THEN value
    ELSE SliceTo(value, max_length - 3) \o "..."

\* Logger.print(*objects, sep, end): what self.logs becomes
logger_print(old_logs, objects, sep, end) == old_logs \o Join(objects, sep) \o end

\* the record with the three text fields as given
record(st, st_trader_data, orders, conversions, trader_data, log_text) ==
    to_json(JList(<<compress_state(st, st_trader_data),
                    compress_orders(orders),
                    JInt(conversions),
                    JStr(trader_data),
                    JStr(log_text)>>))

base_length(st, orders, conversions) == Len(record(st, "", orders, conversions, "", ""))

max_item_length(st, orders, conversions) ==
    (max_log_length - base_length(st, orders, conversions)) \div 3

\* the line Logger.flush prints
flush(logger_logs, st, orders, conversions, trader_data) ==
    LET m == max_item_length(st, orders, conversions)
    IN  record(st, truncate(st.traderData, m), orders, conversions,
               truncate(trader_data, m), truncate(logger_logs, m))

-----------------------------------------------------------------------------
(* Bounds and input sets *)

\* levels on one side of a book handed to compute_orders_resin (EngineSpec)
MaxLevels == 2

\* levels in a map handed to values_extract (ExtractSpec)
MaxExtractLevels == 3

\* levels on one side of a tick's book, and ticks in a run (Spec)
MaxTickLevels == 2

MaxTicks == 2

\* Logger.print is called while self.logs is shorter than this (LoggerSpec)
MaxLogs == 4

\* length of the long texts, and number of market trades of the large tick
LongText == 1300

ManyTrades == 97

\* sequences of at most n <<price, volume>> pairs with strictly increasing
\* (up) or strictly decreasing prices
LevelMaps(prices, volumes, n, up) ==
    {d \in UNION {[1..k -> prices \X volumes] : k \in 0..n} :
        \A i \in 1..(Len(d) - 1) :
            IF up THEN d[i][1] < d[i + 1][1] ELSE d[i][1] > d[i + 1][1]}

\* ask prices around the fair price; the bid prices mirror them
AskPrices == {resin_fair_price + o : o \in {-2, -1, 0, 2, 4}}

BidPrices == {resin_fair_price - o : o \in {-2, -1, 0, 2, 4}}

AskVolumes == {-10, -60}

BidVolumes == {8, 60}

Positions == {-50, -16, -15, -1, 0, 1, 15, 16, 50}

\* <<acc_bid, acc_ask>>: run's pair, and a pair with a spread
FairValues == {<<resin_fair_price, resin_fair_price>>,
               <<resin_fair_price - 1, resin_fair_price + 1>>}

OrderDepth(buy_orders, sell_orders) ==
    [buy_orders |-> buy_orders, sell_orders |-> sell_orders]

\* the books of EngineSpec: each side listed worst price first
EngineBooks ==
    {OrderDepth(b, s) : b \in LevelMaps(BidPrices, BidVolumes, MaxLevels, TRUE),
                        s \in LevelMaps(AskPrices, AskVolumes, MaxLevels, FALSE)}

ExtractPrices == 100..103

\* the maps of ExtractSpec, in price-priority order: asks upwards with
\* volumes <= 0 (buy = 0), bids downwards with volumes >= 0 (buy = 1)
ExtractCalls ==
    {[order_dict |-> d, buy |-> 0] :
        d \in LevelMaps(ExtractPrices, {0, -3, -5}, MaxExtractLevels, TRUE)}
    \cup
    {[order_dict |-> d, buy |-> 1] :
        d \in LevelMaps(ExtractPrices, {0, 3, 5}, MaxExtractLevels, FALSE)}

TickAskPrices == {9998, 10000, 10001}

TickBidPrices == {10002, 10000, 9999}

TickAskVolumes == {-10}

TickBidVolumes == {8}

TickPositions == {<<>>} \cup {<< <<RESIN, p>> >> : p \in {-50, -1, 0, 16, 50}}

Listing(symbol, product, denomination) ==
    [symbol |-> symbol, product |-> product, denomination |-> denomination]

Trade(symbol, price, quantity, buyer, seller, timestamp) ==
    [symbol |-> symbol, price |-> price, quantity |-> quantity,
     buyer |-> buyer, seller |-> seller, timestamp |-> timestamp]

TradingState(traderData, timestamp, listings, order_depths, own_trades, market_trades, pos, observations) ==
    [traderData |-> traderData, timestamp |-> timestamp, listings |-> listings,
     order_depths |-> order_depths, own_trades |-> own_trades,
     market_trades |-> market_trades, position |-> pos,
     observations |-> observations]

NoObservations == [plainValueObservations |-> <<>>, conversionObservations |-> <<>>]

\* a tick of the resin market before its book is filled in
NewState(timestamp, listed, pos) ==
    TradingState("", timestamp,
                 << <<RESIN, Listing(RESIN, RESIN, "SEASHELLS")>> >>,
                 IF listed THEN << <<RESIN, OrderDepth(<<>>, <<>>)>> >> ELSE <<>>,
                 <<>>, <<>>, pos, NoObservations)

\* c repeated n times
RECURSIVE Rep(_, _)
Rep(c, n) ==
    IF n = 0 THEN ""
    ELSE IF n = 1 THEN c
    ELSE Rep(c, n \div 2) \o Rep(c, n - (n \div 2))

Texts == {"", "abcdefghij", Rep("a", LongText), Rep("\n", LongText)}

\* the ticks of LoggerSpec: a small one, and two with so many market trades
\* that their record leaves little or nothing of the budget
LoggerStates ==
    {TradingState(td, ts,
                  << <<RESIN, Listing(RESIN, RESIN, "SEASHELLS")>> >>,
                  << <<RESIN, OrderDepth(<< <<10002, 8>> >>, << <<9998, -10>> >>)>> >>,
                  <<>>,
                  IF n = 0 THEN <<>>
                  ELSE << <<RESIN, [i \in 1..n |-> Trade(RESIN, 10000, 5, "", "", 0)]>> >>,
                  << <<RESIN, 0>> >>, NoObservations) :
        td \in Texts, ts \in {0, 100}, n \in {0, ManyTrades - 1, ManyTrades}}

PrintCalls == {<<"ab">>, <<"a", "b">>, <<Rep("a", LongText)>>}

FlushOrders == {<<>>, << <<RESIN, <<Order(RESIN, 9999, 40), Order(RESIN, 10001, -40)>> >> >>}

-----------------------------------------------------------------------------
(* ExtractSpec: values_extract on bounded level maps *)

ExtractInit ==
    /\ position = 0 /\ logs = "" /\ state = None /\ stdout = None
    /\ args \in ExtractCalls
    /\ ret = None
    /\ pc = "ready"

Extract ==
    /\ pc = "ready"
    /\ ret' = values_extract(args.order_dict, args.buy)
    /\ pc' = "done"
    /\ UNCHANGED <<position, logs, state, args, stdout>>

ExtractNext == Extract

ExtractSpec == ExtractInit /\ [][ExtractNext]_vars

-----------------------------------------------------------------------------
(* EngineSpec: compute_orders_resin on bounded books, inventories and fair   *)
(* values                                                                    *)

EngineInit ==
    /\ position \in Positions
    /\ logs = "" /\ state = None /\ stdout = None
    /\ \E od \in EngineBooks, fv \in FairValues :
          args = [product |-> RESIN, order_depth |-> od,
                  acc_bid |-> fv[1], acc_ask |-> fv[2]]
    /\ ret = None
    /\ pc = "ready"

ComputeOrders ==
    /\ pc = "ready"
    /\ ret' = compute_orders_resin(position, args.order_depth, args.acc_bid, args.acc_ask)
    /\ pc' = "done"
    /\ UNCHANGED <<position, logs, state, args, stdout>>

EngineNext == ComputeOrders

EngineSpec == EngineInit /\ [][EngineNext]_vars

-----------------------------------------------------------------------------
(* LoggerSpec: Logger.print and Logger.flush on bounded ticks and texts *)

LoggerInit ==
    /\ position = 0
    /\ logs = ""
    /\ state \in LoggerStates
    /\ args = None /\ ret = None /\ stdout = None
    /\ pc = "ready"

LoggerPrint ==
    /\ pc = "ready"
    /\ Len(logs) < MaxLogs
    /\ \E objects \in PrintCalls : logs' = logger_print(logs, objects, " ", "\n")
    /\ UNCHANGED <<position, state, args, ret, stdout, pc>>

\* args keeps the arguments of the call and the logs it was made with
LoggerFlush ==
    /\ pc = "ready"
    /\ \E orders \in FlushOrders, trader_data \in Texts :
          /\ args' = [orders |-> orders, conversions |-> 0,
                      trader_data |-> trader_data, logs |-> logs]
          /\ stdout' = flush(logs, state, orders, 0, trader_data)
    /\ logs' = ""
    /\ pc' = "done"
    /\ UNCHANGED <<position, state, ret>>

LoggerNext == LoggerPrint \/ LoggerFlush

LoggerSpec == LoggerInit /\ [][LoggerNext]_vars

-----------------------------------------------------------------------------
(* Spec: one Trader and the module's logger over a run of ticks.  The caller  *)
(* builds each tick's TradingState (NewTick, AddAsk, AddBid) and calls run;   *)
(* args, ret and stdout hold what the call of the current tick was made with, *)
(* returned and printed.                                                      *)

Init ==
    /\ position = 0
    /\ logs = ""
    /\ state = None
    /\ args = None /\ ret = None /\ stdout = None
    /\ pc = "idle"

NewTick ==
    /\ pc \in {"idle", "done", "raised"}
    /\ IF pc = "idle" THEN TRUE ELSE state.timestamp + 100 < MaxTicks * 100
    /\ \E listed \in BOOLEAN, pos \in TickPositions :
          state' = NewState(IF pc = "idle" THEN 0 ELSE state.timestamp + 100, listed, pos)
    /\ args' = None
    /\ ret' = None
    /\ stdout' = None
    /\ pc' = "ready"
    /\ UNCHANGED <<position, logs>>

\* the resin book of the tick being built
Book == Get(state.order_depths, RESIN, None)

AddAsk ==
    /\ pc = "ready"
    /\ Has(state.order_depths, RESIN)
    /\ Len(Book.sell_orders) < MaxTickLevels
    /\ \E price \in TickAskPrices, vol \in TickAskVolumes :
          /\ ~Has(Book.sell_orders, price)
          /\ state' = [state EXCEPT !.order_depths =
                          << <<RESIN, [Book EXCEPT !.sell_orders = Append(@, <<price, vol>>)]>> >>]
    /\ UNCHANGED <<position, logs, args, ret, stdout, pc>>

AddBid ==
    /\ pc = "ready"
    /\ Has(state.order_depths, RESIN)
    /\ Len(Book.buy_orders) < MaxTickLevels
    /\ \E price \in TickBidPrices, vol \in TickBidVolumes :
          /\ ~Has(Book.buy_orders, price)
          /\ state' = [state EXCEPT !.order_depths =
                          << <<RESIN, [Book EXCEPT !.buy_orders = Append(@, <<price, vol>>)]>> >>]
    /\ UNCHANGED <<position, logs, args, ret, stdout, pc>>

\* the inventory of the tick before, left in self.position
run_position_stale(self_position, st) == self_position

\* self.position["RAINFOREST_RESIN"] as compute_orders_resin finds it
run_position(self_position, st) == Get(st.position, RESIN, 0)

\* Trader.run(state); args keeps self.position as the call found it
Run ==
    /\ pc = "ready"
    /\ IF Has(state.order_depths, RESIN)
       THEN LET od == Get(state.order_depths, RESIN, None)
                acc_bid == resin_fair_price
                acc_ask == resin_fair_price
                result == compute_orders_resin(run_position(position, state), od,
                                               acc_bid, acc_ask)
            IN  /\ position' = run_position(position, state)
                /\ IF result.raised
                   THEN /\ pc' = "raised"
                        /\ UNCHANGED <<logs, ret, stdout>>
                   ELSE LET orders == << <<RESIN, result.orders>> >>
                        IN  /\ stdout' = flush(logs, state, orders, 0, "")
                            /\ logs' = ""
                            /\ ret' = <<orders, 0, "">>
                            /\ pc' = "done"
       ELSE /\ stdout' = flush(logs, state, <<>>, 0, "")
            /\ logs' = ""
            /\ ret' = <<<<>>, 0, "">>
            /\ pc' = "done"
            /\ UNCHANGED position
    /\ args' = [position |-> position]
    /\ UNCHANGED state

Next == NewTick \/ AddAsk \/ AddBid \/ Run

Spec == Init /\ [][Next]_vars

-----------------------------------------------------------------------------
(* Properties *)

\* the quantities of the orders, added up
RECURSIVE Quantity(_)
Quantity(orders) ==
    IF orders = <<>> THEN 0 ELSE Head(orders).quantity + Quantity(Tail(orders))

IsBuy(order) == order.quantity > 0

IsSell(order) == order.quantity < 0

Buys(orders) == SelectSeq(orders, IsBuy)

Sells(orders) == SelectSeq(orders, IsSell)

\* C1 (position-limit invariant): whatever the book and the inventory within
\* the limit, compute_orders_resin returns orders whose buys, all filled, leave
\* the inventory at most at the limit, and whose sells, all filled, leave it at
\* least at minus the limit.
C1_PositionLimit ==
    pc = "done" =>
        /\ ~ret.raised
        /\ position + Quantity(Buys(ret.orders)) <= position_limit
        /\ position + Quantity(Sells(ret.orders)) >= -position_limit

\* an inventory of 16 whose passive orders are cut to the capacity left: the
\* buys filled reach the limit, the sells minus the limit
C1_Witness ==
    /\ pc = "done"
    /\ position = 16
    /\ Len(ret.orders) > 2
    /\ position + Quantity(Buys(ret.orders)) = position_limit
    /\ position + Quantity(Sells(ret.orders)) = -position_limit

\* the signed volume of the i-th level handed to values_extract
Signed(i) ==
    IF args.buy = 0 THEN -args.order_dict[i][2] ELSE args.order_dict[i][2]

\* the running total after the i-th level
RECURSIVE Running(_)
Running(i) == IF i = 0 THEN 0 ELSE Running(i - 1) + Signed(i)

\* C5 (cumulative-volume extractor): values_extract returns the sum of the
\* signed volumes and the price of the first level, in scan order, at which
\* the running total is at its maximum; (0, -1) for an empty map.
C5_Extractor ==
    pc = "done" =>
        LET n == Len(args.order_dict)
        IN  IF n = 0 THEN ret = <<0, -1>>
            ELSE /\ ret[1] = Running(n)
                 /\ \E i \in 1..n :
                       /\ ret[2] = args.order_dict[i][1]
                       /\ \A j \in 1..n : Running(j) <= Running(i)
                       /\ \A j \in 1..(i - 1) : Running(j) < Running(i)

\* the claim's example: sell levels {100: -5, 101: -3} give (8, 101)
C5_Witness ==
    /\ pc = "done"
    /\ args = [order_dict |-> << <<100, -5>>, <<101, -3>> >>, buy |-> 0]
    /\ ret = <<8, 101>>

\* the least and the greatest of a set of prices
Lowest(prices) == CHOOSE p \in prices : \A q \in prices : p <= q

Highest(prices) == CHOOSE p \in prices : \A q \in prices : p >= q

Prices(d) == {d[i][1] : i \in DOMAIN d}

\* the buys the claim expects from the sell levels at the given prices, scanned
\* upwards, with cpos the running inventory
RECURSIVE ExpectedTakenAsks(_, _)
ExpectedTakenAsks(prices, cpos) ==
    IF prices = {} THEN <<>>
    ELSE LET price == Lowest(prices)
             available == -Get(args.order_depth.sell_orders, price, 0)
             quantity == Min(available, position_limit - cpos)
         IN  IF (price < args.acc_bid \/ (price = args.acc_bid /\ position < 0))
                /\ cpos < position_limit
             THEN <<Order(RESIN, price, quantity)>>
                  \o ExpectedTakenAsks(prices \ {price}, cpos + quantity)
             ELSE ExpectedTakenAsks(prices \ {price}, cpos)

\* the sells the claim expects from the buy levels, scanned downwards
RECURSIVE ExpectedTakenBids(_, _)
ExpectedTakenBids(prices, cpos) ==
    IF prices = {} THEN <<>>
    ELSE LET price == Highest(prices)
             volume == Get(args.order_depth.buy_orders, price, 0)
             quantity == Max(-volume, -position_limit - cpos)
         IN  IF (price > args.acc_ask \/ (price = args.acc_ask /\ position > 0))
                /\ cpos > -position_limit
             THEN <<Order(RESIN, price, quantity)>>
                  \o ExpectedTakenBids(prices \ {price}, cpos + quantity)
             ELSE ExpectedTakenBids(prices \ {price}, cpos)

TakenAsks == ExpectedTakenAsks(Prices(args.order_depth.sell_orders), position)

TakenBids == ExpectedTakenBids(Prices(args.order_depth.buy_orders), position)

\* C8 (aggressive taking): the orders returned begin with the buys taken from
\* the sell levels, one for each level that is below acc_bid (or at acc_bid
\* with a negative inventory) while cpos is under the limit, of quantity
\* min(available, limit - cpos); the sells returned begin with the mirrored
\* sells taken from the buy levels, cpos restarted at the inventory; no later
\* buy is at the price of a sell level not taken, and no later sell at the
\* price of a buy level not taken.
C8_AggressiveTaking ==
    pc = "done" =>
        LET nb == Len(TakenAsks)
            ns == Len(TakenBids)
            sells == Sells(ret.orders)
        IN  /\ Len(ret.orders) >= nb
            /\ SubSeq(ret.orders, 1, nb) = TakenAsks
            /\ Len(sells) >= ns
            /\ SubSeq(sells, 1, ns) = TakenBids
            /\ \A i \in (nb + 1)..Len(ret.orders) :
                  IsBuy(ret.orders[i]) =>
                      ret.orders[i].price \notin
                          Prices(args.order_depth.sell_orders)
                              \ {TakenAsks[k].price : k \in 1..nb}
            /\ \A i \in (ns + 1)..Len(sells) :
                  sells[i].price \notin
                      Prices(args.order_depth.buy_orders)
                          \ {TakenBids[k].price : k \in 1..ns}

\* two sell levels taken from an inventory of 16, the second cut to the
\* capacity left, and a buy level taken
C8_Witness ==
    /\ pc = "done"
    /\ position = 16
    /\ Len(TakenAsks) = 2
    /\ TakenAsks[2].quantity = position_limit - 16 - 10
    /\ Len(TakenBids) = 1
    /\ SubSeq(ret.orders, 1, 2) = TakenAsks

\* the cpos a sequence of orders leaves, from cpos0
After(cpos0, orders) == cpos0 + Quantity(orders)

\* one passive buy as the claim has it
ExpectedBuy(cond, price, cpos) ==
    IF cond /\ cpos < position_limit
    THEN <<Order(RESIN, price, Min(40, position_limit - cpos))>>
    ELSE <<>>

\* the passive buys the claim expects after the taking has left cpos
ExpectedPassiveBuys(cpos) ==
    LET bestBuyPrice == values_extract(Sorted(args.order_depth.buy_orders, TRUE), 1)[2]
        undercutBuy == bestBuyPrice + 1
        passiveBid == Min(undercutBuy, args.acc_bid - 1)
        first == IF position < 0
                 THEN ExpectedBuy(TRUE, Min(undercutBuy + 1, args.acc_bid - 1), cpos)
                 ELSE ExpectedBuy(position > 15, Min(undercutBuy - 1, args.acc_bid - 1), cpos)
    IN  first \o ExpectedBuy(TRUE, passiveBid, After(cpos, first))

\* one passive sell as the claim has it
ExpectedSell(cond, price, cpos) ==
    IF cond /\ cpos > -position_limit
    THEN <<Order(RESIN, price, Max(-40, -position_limit - cpos))>>
    ELSE <<>>

\* the passive sells the claim expects after the taking has left cpos
ExpectedPassiveSells(cpos) ==
    LET bestSellPrice == values_extract(Sorted(args.order_depth.sell_orders, FALSE), 0)[2]
        undercutSell == bestSellPrice - 1
        passiveAsk == Max(undercutSell, args.acc_ask + 1)
        first == IF position > 0
                 THEN ExpectedSell(TRUE, Max(undercutSell - 1, args.acc_ask + 1), cpos)
                 ELSE ExpectedSell(position < -15, Max(undercutSell + 1, args.acc_ask + 1), cpos)
    IN  first \o ExpectedSell(TRUE, passiveAsk, After(cpos, first))

\* C9 (passive inventory skew): after the buys taken, the buys returned are
\* the unwind buy when the inventory is negative, else the soft buy when it is
\* over 15, then the buy at passiveBid, each only while cpos is under the limit
\* and of quantity min(40, limit - cpos); the sells returned after the sells
\* taken mirror them.
C9_PassiveSkew ==
    pc = "done" =>
        LET buys == Buys(ret.orders)
            sells == Sells(ret.orders)
            nb == Len(TakenAsks)
            ns == Len(TakenBids)
        IN  /\ SubSeq(buys, nb + 1, Len(buys))
                  = ExpectedPassiveBuys(After(position, SubSeq(buys, 1, nb)))
            /\ SubSeq(sells, ns + 1, Len(sells))
                  = ExpectedPassiveSells(After(position, SubSeq(sells, 1, ns)))
            /\ ret.orders = buys \o sells

\* an inventory of -16 with the best bid at 9996 and the best ask at 10004:
\* the unwind buy at 9998, the buy at passiveBid 9997 cut to 26, and the soft
\* sell at 10004 cut to 34
C9_Witness ==
    /\ pc = "done"
    /\ position = -16
    /\ args.acc_bid = resin_fair_price /\ args.acc_ask = resin_fair_price
    /\ ret.orders = <<Order(RESIN, 9998, 40), Order(RESIN, 9997, 26),
                      Order(RESIN, 10004, -34)>>

\* the prices one or two away from the invalid price -1, which is what
\* undercut_buy and undercut_sell and the skewed prices are when a side is empty
SentinelPrices == {-1 + d : d \in -2..2}

\* C10 (invalid-price guard): with a side of the book empty,
\* compute_orders_resin returns, takes nothing from that side (the orders in
\* the taking direction are the passive ones only), and no order it returns is
\* priced from the invalid price -1.
C10_InvalidPriceGuard ==
    (pc = "done" /\ (args.order_depth.buy_orders = <<>>
                     \/ args.order_depth.sell_orders = <<>>)) =>
        /\ ~ret.raised
        /\ args.order_depth.sell_orders = <<>> =>
              Len(Buys(ret.orders)) = Len(ExpectedPassiveBuys(position))
        /\ args.order_depth.buy_orders = <<>> =>
              Len(Sells(ret.orders)) = Len(ExpectedPassiveSells(position))
        /\ \A i \in DOMAIN ret.orders : ret.orders[i].price \notin SentinelPrices


\* the resin orders run returned
Returned == Get(ret[1], RESIN, <<>>)

\* the inventory the tick states
Inventory == Get(state.position, RESIN, 0)

\* C3 (empty input): run on a tick whose resin book is empty on both sides and
\* whose inventory is zero returns no order for the instrument.
C3_EmptyInput ==
    (/\ pc = "done"
     /\ Has(state.order_depths, RESIN)
     /\ Book.buy_orders = <<>>
     /\ Book.sell_orders = <<>>
     /\ Inventory = 0) => Returned = <<>>

\* C4 (no stale inventory): whatever the ticks before, the orders run returns
\* are those of the tick's own book and of the tick's own inventory (0 when
\* the instrument is absent from state.position), and that inventory is what
\* self.position holds for the engine.
C4_NoStaleInventory ==
    pc = "done" =>
        IF Has(state.order_depths, RESIN)
        THEN /\ position = Inventory
             /\ ret[1] = << <<RESIN, compute_orders_resin(Inventory, Book,
                                                          resin_fair_price,
                                                          resin_fair_price).orders>> >>
        ELSE ret[1] = <<>>

\* run found 16 in self.position, left by the tick before, on a tick that
\* states no inventory, and quoted for an inventory of 0: 40 on each side
C4_Witness ==
    /\ pc = "done"
    /\ args.position = 16
    /\ state.position = <<>>
    /\ Has(state.order_depths, RESIN)
    /\ position = 0
    /\ Quantity(Buys(Returned)) = 40
    /\ \E i \in DOMAIN Returned : Returned[i].quantity = -40

\* the tick of the scenario, run
Scenario ==
    /\ pc = "done"
    /\ Has(state.order_depths, RESIN)
    /\ Book.sell_orders = << <<9998, -10>> >>
    /\ Book.buy_orders = << <<10002, 8>> >>
    /\ Inventory = 0

Near(price, value) == price - value \in -1..1

Taken9998 == Order(RESIN, 9998, 10)

WithinLimit ==
    /\ Inventory + Quantity(Buys(Returned)) <= position_limit
    /\ Inventory + Quantity(Sells(Returned)) >= -position_limit

\* C7 as stated: in the scenario the engine buys 10 at 9998, posts a passive
\* buy within one of 10001 and a passive sell within one of 9999, and the full
\* fill of either direction stays within the limit.
C7_ScenarioAsStated ==
    Scenario =>
        /\ \E i \in DOMAIN Returned : Returned[i] = Taken9998
        /\ \E i \in DOMAIN Returned :
              /\ IsBuy(Returned[i]) /\ Returned[i] # Taken9998
              /\ Near(Returned[i].price, 10001)
        /\ \E i \in DOMAIN Returned :
              IsSell(Returned[i]) /\ Near(Returned[i].price, 9999)
        /\ WithinLimit

\* C7 amended: in the scenario the engine buys 10 at 9998, posts a passive buy
\* at 9999 (acc_bid - 1) and a passive sell at 10001 (acc_ask + 1), and the
\* full fill of either direction stays within the limit.
C7_Scenario ==
    Scenario =>
        /\ \E i \in DOMAIN Returned : Returned[i] = Taken9998
        /\ \E i \in DOMAIN Returned :
              /\ IsBuy(Returned[i]) /\ Returned[i] # Taken9998
              /\ Returned[i].price = 9999
        /\ \E i \in DOMAIN Returned :
              IsSell(Returned[i]) /\ Returned[i].price = 10001
        /\ WithinLimit

\* the scenario run, with the four orders it returns
C7_Witness ==
    /\ Scenario
    /\ Returned = <<Order(RESIN, 9998, 10), Order(RESIN, 9999, 40),
                    Order(RESIN, 10002, -8), Order(RESIN, 10001, -40)>>

\* the per-field budget of the flush made
Budget == max_item_length(state, args.orders, args.conversions)

\* the three text fields of the flush made
Fields == <<state.traderData, args.trader_data, args.logs>>

\* C2 (encoder budget law): the record flush prints is at most max_log_length
\* long, and when none of the three text fields is longer than the per-field
\* budget it is the record of the three fields as they are.
C2_BudgetLaw ==
    pc = "done" =>
        /\ Len(stdout) <= max_log_length
        /\ (\A i \in 1..3 : Len(Fields[i]) <= Budget) =>
              stdout = record(state, Fields[1], args.orders, args.conversions,
                              Fields[2], Fields[3])

\* a field cut as the claim has it: its first B - 3 characters and "..."
Cut(field, B) ==
    IF Len(field) <= B THEN field
    ELSE SubSeq(field, 1, Max(0, B - 3)) \o "..."

\* C6 (truncation correctness): in the record flush prints, each text field
\* longer than the per-field budget B is cut to exactly B characters, its first
\* B - 3 and then "...", and each other field is as it was.
C6_Truncation ==
    pc = "done" =>
        /\ stdout = record(state, Cut(Fields[1], Budget), args.orders,
                           args.conversions, Cut(Fields[2], Budget),
                           Cut(Fields[3], Budget))
        /\ \A i \in 1..3 : Len(Fields[i]) > Budget => Len(Cut(Fields[i], Budget)) = Budget

=============================================================================
